---- MODULE Spec2Model ----
(***************************************************************************)
(* Model of FCSViewer (src/FCSViewer.py): the client side of the viewer    *)
(* synchronisation protocol.  One FCSViewer object, its DocumentBuilder    *)
(* collaborator (the local document mirror) and the loopback network.      *)
(* Every public method is one action; a Python exception raised inside a   *)
(* method leaves the assignments made before it in place.                  *)
(***************************************************************************)
EXTENDS Integers, Sequences, FiniteSets, TLC

\* ---------------------------------------------------------------- bounds
\* Largest number of successful publishes explored in one session.
MaxPublished == 2

\* ------------------------------------------------------------ input sets
\* Outcome of the TCP connect of has_active_viewer.
ProbeOutcomes == {"port_open", "port_closed", "probe_exception"}
\* Outcome of GET /version followed by check_api_compatibility.
VersionOutcomes == {"compatible", "incompatible", "network_error"}
\* Outcome of requests.post followed by dict(response).
\* The POST raised; or dict() of the response gave a dictionary (the body
\* was empty or exactly two bytes long); or dict() raised (any other body).
PostOutcomes == {"exception", "empty_body", "other_body"}
\* sys.platform
Platforms == {"win32", "linux", "darwin"}
\* What os.getenv / os.path.isdir / os.mkdir do in __setup_temp_folder.
FolderOutcomes == {"exists", "created", "mkdir_error"}
AppDataOutcomes == {"resolved", "unresolved"}
\* Names handed to add_to_document.
Names == {"Bracket"}
DefaultPluginName == "FCSPythonProject"
PluginNames == {"Plugin"}
DefaultDocumentName == "Document"
ModelNames == {"Model"}
\* Opacity values (percent) and colours used as arguments.
DefaultOpacity == 100
Opacities == {50}
DefaultColour == <<>>
ColourSelection == {"red"}
RGBInputs == {<<255, 0, 0>>}
\* Local ids the callers pass: every id the document may hold and one more.
EntityIds == 1 .. (MaxPublished + 1)
\* Ids whose opacity and colour the callers set: the first component and the
\* id no component has.
AttributeIds == {1, MaxPublished + 1}

VARIABLES
    constructed,               \* FALSE when __init__ raised: no object exists
    platform,                  \* self.platform
    is_available,              \* self.is_available
    is_viewer_compatible,      \* self.is_viewer_compatible
    published_object_counter,  \* self.published_object_counter
    plugin_name,               \* self.plugin_name
    active_document_name,      \* self.active_document_name
    project_folder,            \* self.project_folder
    document,                  \* self.document_operator (the local mirror)
    viewer_at_construction,    \* what the probes of __init__ met
    requests,                  \* network requests issued by the last call
    dict_result,               \* what __try_send_request returned to it
    headless,                  \* local state of a session given the same
                               \* calls and local outcomes with no viewer
    last_call                  \* the last call: operation, argument, outcome

vars == <<constructed, platform, is_available, is_viewer_compatible,
          published_object_counter, plugin_name, active_document_name,
          project_folder, document, viewer_at_construction, requests,
          dict_result, headless, last_call>>

\* What no method changes once __init__ has run.
fixed == <<constructed, platform, viewer_at_construction>>

\* ------------------------------------------------ DocumentBuilder (PyFCS)
\* The document: its name, the ids of the added components in the order
\* get_added_component_ids returns them, and one record per component.
EmptyDocument ==
    [name |-> DefaultDocumentName, ids |-> <<>>, objects |-> <<>>]

RegisteredIds(doc) == {doc.ids[i] : i \in 1 .. Len(doc.ids)}

get_added_component_ids(doc) == doc.ids

get_document_name(doc) == doc.name

set_document_name(doc, name) == [doc EXCEPT !.name = name]

\* set_object_visibility that records a visibility for an id the document
\* does not hold.
set_object_visibility_unchecked(doc, id, visible) ==
    IF id \in RegisteredIds(doc)
    THEN [doc EXCEPT !.objects[id].visible = visible]
    ELSE IF id = Len(doc.objects) + 1
         THEN [doc EXCEPT !.objects =
                   Append(doc.objects,
                          [name |-> <<0, "">>, visible |-> visible,
                           opacity |-> DefaultOpacity,
                           colour |-> DefaultColour])]
         ELSE doc

set_object_visibility(doc, id, visible) ==
    IF id \in RegisteredIds(doc)
    THEN [doc EXCEPT !.objects[id].visible = visible]
    ELSE doc

set_object_opacity(doc, id, opacity) ==
    IF id \in RegisteredIds(doc)
    THEN [doc EXCEPT !.objects[id].opacity = opacity]
    ELSE doc

set_object_colour(doc, id, colour) ==
    IF id \in RegisteredIds(doc)
    THEN [doc EXCEPT !.objects[id].colour = colour]
    ELSE doc

document_next_id(doc) == Len(doc.ids) + 1

\* DocumentBuilder.add_to_document(entity, name, path) when the export
\* succeeds: the component gets the next free id and its default attributes.
document_add(doc, object_name) ==
    LET item_id == document_next_id(doc) IN
    [doc EXCEPT !.ids = Append(doc.ids, item_id),
                !.objects = Append(doc.objects,
                                   [name |-> object_name, visible |-> TRUE,
                                    opacity |-> DefaultOpacity,
                                    colour |-> DefaultColour])]

\* close_document releases the saved document; nothing the viewer reads.
close_document(doc) == doc

VisibleIds(doc) == {id \in RegisteredIds(doc) : doc.objects[id].visible}

\* ------------------------------------------------------------- transport
Request(method, operation, fields, arguments) ==
    [method |-> method, operation |-> operation, fields |-> fields,
     arguments |-> arguments, files |-> <<>>, gate |-> is_available]

\* The outcomes a call can meet: none when no POST is attempted.
PostInputs == IF is_available THEN PostOutcomes ELSE {"not_attempted"}

\* A response dictionary: the keys it has and the value under "status".
NoViewerInstance == [keys |-> {"status"}, status |-> "NoViewerInstance"]
StatusFalse == [keys |-> {"status"}, status |-> "False"]
\* The call did not reach __try_send_request.
NoResponse == [keys |-> {}, status |-> "no_request"]

\* dict(response): a requests.Response iterates over its body in chunks of
\* 128 bytes, so dict() succeeds only for an empty body (no chunk: {}) and
\* for a body of exactly two bytes (one chunk of length 2: {byte0: byte1});
\* neither dictionary has a "status" key.  Any other body is a ValueError.
dict_of_response(post) ==
    CASE post = "empty_body" -> [keys |-> {}, status |-> "absent"]

\* __try_send_request without the availability check of line 451.
try_send_request_ungated(request, post) ==
    IF post = "empty_body"
    THEN [dict |-> dict_of_response(post), sent |-> <<request>>]
    ELSE [dict |-> StatusFalse, sent |-> <<request>>]

\* __try_send_request that posts a second time when the first POST raised.
try_send_request_retries(request, post) ==
    IF ~is_available
    THEN [dict |-> NoViewerInstance, sent |-> <<>>]
    ELSE IF post = "empty_body"
         THEN [dict |-> dict_of_response(post), sent |-> <<request>>]
         ELSE IF post = "exception"
              THEN [dict |-> StatusFalse, sent |-> <<request, request>>]
              ELSE [dict |-> StatusFalse, sent |-> <<request>>]

\* FCSViewer.__try_send_request: the dictionary returned and the requests
\* that went out on the network.
try_send_request(request, post) ==
    IF ~is_available
    THEN [dict |-> NoViewerInstance, sent |-> <<>>]
    ELSE IF post = "empty_body"
         THEN [dict |-> dict_of_response(post), sent |-> <<request>>]
         ELSE [dict |-> StatusFalse, sent |-> <<request>>]

\* dict_result["status"] raises KeyError when the key is missing.
HasStatus(dict) == "status" \in dict.keys

\* ------------------------------------------------------- availability gate
\* FCSViewer.has_active_viewer: true iff the connect succeeds; an exception
\* of the probe is caught and reported as no viewer.
has_active_viewer(probe) == probe = "port_open"

\* has_compatible_viewer without the assignment of line 89.
has_compatible_viewer_keeps_gate(avail, version) ==
    LET get == [method |-> "GET", operation |-> "version", fields |-> {},
                arguments |-> {}, files |-> <<>>, gate |-> avail] IN
    IF ~avail
    THEN [raised |-> FALSE, result |-> FALSE, is_available |-> avail,
          sent |-> <<>>]
    ELSE [raised |-> version = "network_error",
          result |-> version # "network_error", is_available |-> avail,
          sent |-> <<get>>]

\* FCSViewer.has_compatible_viewer, called with self.is_available = avail:
\* whether it raised, what it returned, self.is_available afterwards and the
\* requests it issued.  requests.get is not guarded by a try.
has_compatible_viewer(avail, version) ==
    LET get == [method |-> "GET", operation |-> "version", fields |-> {},
                arguments |-> {}, files |-> <<>>, gate |-> avail] IN
    IF ~avail
    THEN [raised |-> FALSE, result |-> FALSE, is_available |-> avail,
          sent |-> <<>>]
    ELSE IF version = "network_error"
         THEN [raised |-> TRUE, result |-> FALSE, is_available |-> avail,
               sent |-> <<get>>]
         ELSE [raised |-> FALSE, result |-> TRUE,
               is_available |-> IF version = "incompatible" THEN FALSE
                                ELSE avail,
               sent |-> <<get>>]

NoPath == [root |-> "", plugin |-> ""]

\* What __setup_temp_folder can meet on a platform: APPDATA is read on win32
\* only, the folder is looked up and made on win32 and linux only.
AppDataInputs(plat) ==
    IF plat = "win32" THEN AppDataOutcomes ELSE {"not_read"}

FolderInputs(plat) ==
    IF plat \in {"win32", "linux"} THEN FolderOutcomes ELSE {"not_attempted"}

\* __setup_temp_folder that marks the session available whenever the folder
\* could be set up.
setup_temp_folder_reprobes(avail, plat, plugin, app_data, folder) ==
    LET str_tmp_path ==
            CASE plat = "win32" ->
                     [root |-> IF app_data = "resolved" THEN "APPDATA"
                               ELSE "None",
                      plugin |-> plugin]
              [] plat = "linux" -> [root |-> "LinuxAppData", plugin |-> plugin]
              [] OTHER -> NoPath
        failed == plat \in {"win32", "linux"} /\ folder = "mkdir_error"
    IN  [path |-> str_tmp_path, is_available |-> ~failed]

\* FCSViewer.__setup_temp_folder: the path returned and self.is_available
\* afterwards.  Only win32 and linux build a path and touch the file system.
setup_temp_folder(avail, plat, plugin, app_data, folder) ==
    LET str_tmp_path ==
            CASE plat = "win32" ->
                     [root |-> IF app_data = "resolved" THEN "APPDATA"
                               ELSE "None",
                      plugin |-> plugin]
              [] plat = "linux" -> [root |-> "LinuxAppData", plugin |-> plugin]
              [] OTHER -> NoPath
        failed == plat \in {"win32", "linux"} /\ folder = "mkdir_error"
    IN  [path |-> str_tmp_path,
         is_available |-> IF failed THEN FALSE ELSE avail]

Call(op, entity_id, outcome, result, local, remote) ==
    [op |-> op, entity_id |-> entity_id, outcome |-> outcome,
     result |-> result, local |-> local, remote |-> remote]

\* FCSViewer.__init__ for every environment the constructor can meet.
Init ==
    \E probe \in ProbeOutcomes, version \in VersionOutcomes,
       plat \in Platforms :
      \E app_data \in AppDataInputs(plat), folder \in FolderInputs(plat) :
        LET active == has_active_viewer(probe)
            compat == has_compatible_viewer(active, version)
            temp == setup_temp_folder(compat.is_available, plat,
                                      DefaultPluginName, app_data, folder)
        IN  /\ platform = plat
            /\ viewer_at_construction = (IF active THEN version ELSE probe)
            /\ published_object_counter = 0
            /\ plugin_name = DefaultPluginName
            /\ document = EmptyDocument
            /\ headless = [document |-> EmptyDocument,
                           published_object_counter |-> 0]
            /\ active_document_name = get_document_name(EmptyDocument)
            /\ requests = compat.sent
            /\ dict_result = NoResponse
            /\ IF compat.raised
               THEN /\ constructed = FALSE
                    /\ is_available = active
                    /\ is_viewer_compatible = FALSE
                    /\ project_folder = NoPath
                    /\ last_call = Call("__init__", 0, "raised", "None",
                                        "not_attempted", version)
               ELSE /\ constructed = TRUE
                    /\ is_available = temp.is_available
                    /\ is_viewer_compatible = compat.result
                    /\ project_folder = temp.path
                    /\ last_call = Call("__init__", 0, "returned", "None",
                                        folder,
                                        IF active THEN version ELSE probe)

\* ------------------------------------------------------- sync operations
\* The tail every sync operation shares: the mirror has become doc, the
\* request is handed to __try_send_request and the result is subscripted
\* with ["status"].
mirror_rolled_back_on_failure(before, mutated, response) ==
    IF response = StatusFalse THEN before ELSE mutated

\* The mirror is mutated before the request is sent and the response is
\* dropped (is_ok is never read): the mutation stands whatever it was.
mirror_after_response(before, mutated, response) == mutated

SendAndReadStatus(op, entity_id, doc, twin_doc, request) ==
    \E post \in PostInputs :
        LET r == try_send_request(request, post) IN
        /\ document' = mirror_after_response(document, doc, r.dict)
        /\ headless' = [headless EXCEPT !.document =
                            mirror_after_response(@, twin_doc,
                                                  NoViewerInstance)]
        /\ requests' = r.sent
        /\ dict_result' = r.dict
        /\ last_call' = Call(op, entity_id,
                             IF HasStatus(r.dict) THEN "returned"
                             ELSE "raised",
                             "None", "done",
                             IF is_available THEN post ELSE "not_attempted")
        /\ UNCHANGED <<fixed, is_available,
                       is_viewer_compatible, published_object_counter,
                       plugin_name, active_document_name, project_folder>>

\* for component_id in ids: set_object_visibility(component_id, visible)
RECURSIVE set_visibility_of_all(_, _, _)
set_visibility_of_all(doc, ids, visible) ==
    IF ids = <<>> THEN doc
    ELSE set_visibility_of_all(set_object_visibility(doc, Head(ids), visible),
                               Tail(ids), visible)

\* The loop of show_only without its else branch.
RECURSIVE show_only_loop_keeps_others(_, _, _)
show_only_loop_keeps_others(doc, ids, entity_id) ==
    IF ids = <<>> THEN doc
    ELSE show_only_loop_keeps_others(
             IF Head(ids) = entity_id
             THEN set_object_visibility(doc, Head(ids), TRUE) ELSE doc,
             Tail(ids), entity_id)

\* The loop of show_only: the matching id is shown, every other id hidden.
RECURSIVE show_only_loop(_, _, _)
show_only_loop(doc, ids, entity_id) ==
    IF ids = <<>> THEN doc
    ELSE show_only_loop(
             set_object_visibility(doc, Head(ids), Head(ids) = entity_id),
             Tail(ids), entity_id)

update_viewer ==
    /\ constructed
    /\ SendAndReadStatus("update_viewer", 0, document, headless.document,
           Request("POST", "update_viewer", {"operation", "arguments"}, {}))

\* save_document_to reports success or failure; the request is built and
\* sent after the if, whatever it reported.
commit_to_document ==
    /\ constructed
    /\ \E saved \in BOOLEAN :
        \E post \in PostInputs :
            LET doc == IF saved THEN close_document(document) ELSE document
                r == try_send_request(
                         Request("POST", "commit_to_document",
                                 {"operation", "arguments"},
                                 {"fname", "model_path"}), post)
            IN  /\ document' = doc
                /\ headless' = [headless EXCEPT !.document =
                                    IF saved THEN close_document(@) ELSE @]
                /\ requests' = r.sent
                /\ dict_result' = r.dict
                /\ last_call' = Call("commit_to_document", 0,
                                     IF HasStatus(r.dict) THEN "returned"
                                     ELSE "raised",
                                     "None",
                                     IF saved THEN "saved" ELSE "save_failed",
                                     IF is_available THEN post
                                     ELSE "not_attempted")
                /\ UNCHANGED <<fixed, is_available,
                               is_viewer_compatible, published_object_counter,
                               plugin_name, active_document_name,
                               project_folder>>

hide(entity_id) ==
    /\ constructed
    /\ SendAndReadStatus("hide", entity_id,
           set_object_visibility(document, entity_id, FALSE),
           set_object_visibility(headless.document, entity_id, FALSE),
           Request("POST", "hide", {"operation", "arguments"}, {"entity_id"}))

\* Lines 154-159 on a document: every component shown, then the one the
\* loop variable component_id is left at, the last of the list, hidden.
hide_only_mirror(doc) ==
    LET list_component_ids == get_added_component_ids(doc)
        shown == set_visibility_of_all(doc, list_component_ids, TRUE)
    IN  IF list_component_ids = <<>> THEN shown
        ELSE set_object_visibility(shown,
                 list_component_ids[Len(list_component_ids)], FALSE)

\* After the loop component_id is the last id of the list; with an empty list
\* the name is unbound and line 159 raises UnboundLocalError.
hide_only(entity_id) ==
    /\ constructed
    /\ IF get_added_component_ids(document) = <<>>
       THEN /\ document' = hide_only_mirror(document)
            /\ headless' = [headless EXCEPT !.document = hide_only_mirror(@)]
            /\ requests' = <<>>
            /\ dict_result' = NoResponse
            /\ last_call' = Call("hide_only", entity_id, "raised", "None",
                                 "unbound_component_id", "not_attempted")
            /\ UNCHANGED <<fixed, is_available,
                           is_viewer_compatible, published_object_counter,
                           plugin_name, active_document_name,
                           project_folder>>
       ELSE SendAndReadStatus("hide_only", entity_id,
                hide_only_mirror(document),
                hide_only_mirror(headless.document),
                Request("POST", "hide_only", {"operation", "arguments"},
                        {"entity_id"}))

hide_all ==
    /\ constructed
    /\ SendAndReadStatus("hide_all", 0,
           set_visibility_of_all(document,
               get_added_component_ids(document), FALSE),
           set_visibility_of_all(headless.document,
               get_added_component_ids(headless.document), FALSE),
           Request("POST", "hide_all", {"operation", "arguments"}, {}))

show(entity_id) ==
    /\ constructed
    /\ SendAndReadStatus("show", entity_id,
           set_object_visibility(document, entity_id, TRUE),
           set_object_visibility(headless.document, entity_id, TRUE),
           Request("POST", "show", {"operation", "arguments"}, {"entity_id"}))

show_only(entity_id) ==
    /\ constructed
    /\ SendAndReadStatus("show_only", entity_id,
           show_only_loop(document,
               get_added_component_ids(document), entity_id),
           show_only_loop(headless.document,
               get_added_component_ids(headless.document), entity_id),
           Request("POST", "show_only", {"operation", "entity_id"}, {}))

show_all ==
    /\ constructed
    /\ SendAndReadStatus("show_all", 0,
           set_visibility_of_all(document,
               get_added_component_ids(document), TRUE),
           set_visibility_of_all(headless.document,
               get_added_component_ids(headless.document), TRUE),
           Request("POST", "show_all", {"operation"}, {}))

set_transparency(entity_id, opacity) ==
    /\ constructed
    /\ SendAndReadStatus("set_transparency", entity_id,
           set_object_opacity(document, entity_id, opacity),
           set_object_opacity(headless.document, entity_id, opacity),
           Request("POST", "set_transparency", {"operation", "arguments"},
                   {"entity_id", "opacity"}))

fit_all ==
    /\ constructed
    /\ SendAndReadStatus("fit_all", 0, document, headless.document,
           Request("POST", "fit_all", {"operation", "arguments"}, {}))

\* ------------------------------------------------------------ publication
\* DocumentBuilder.add_to_document inside the try of lines 293-295: either
\* the component is added and its id returned, or the export raises and
\* item_id keeps the -1 of line 284.
export_step(doc, object_name, exported) ==
    IF exported
    THEN [raised |-> FALSE, item_id |-> document_next_id(doc),
          document |-> document_add(doc, object_name)]
    ELSE [raised |-> TRUE, item_id |-> 0 - 1, document |-> doc]

\* The except branch without its return.
publish_never_aborted(export) == FALSE

\* except Exception: print(...); return
publish_aborted(export) == export.raised

\* The order counted from zero.
next_object_order_from_zero(counter) == counter

\* object_order = self.published_object_counter + 1
next_object_order(counter) == counter + 1

\* f"{object_order}_{name}.stl" and f"{object_order}_{name}_geom.json"
export_stl_name(object_order, name) ==
    ToString(object_order) \o "_" \o name \o ".stl"

export_t2g_name(object_order, name) ==
    ToString(object_order) \o "_" \o name \o "_geom.json"

\* The counter incremented only when the viewer did not report a failure.
counter_only_on_remote_success(counter, response) ==
    IF HasStatus(response) /\ response.status = "False" THEN counter
    ELSE counter + 1

\* self.published_object_counter += 1, whatever the response was.
counter_after_publish(counter, response) == counter + 1

add_to_document(name) ==
    /\ constructed
    /\ published_object_counter < MaxPublished
    /\ Len(document.ids) < MaxPublished
    /\ \E exported \in BOOLEAN :
        \E post \in PostInputs :
            LET object_order == next_object_order(published_object_counter)
                export == export_step(document, <<object_order, name>>,
                                      exported)
                r == try_send_request(
                         [Request("POST", "add_to_document",
                                  {"operation", "arguments"},
                                  {"name", "item_id", "t2g_file", "stl_file",
                                   "stl_path", "stl_path_static",
                                   "t2g_path_static"})
                          EXCEPT !.files =
                              <<export_stl_name(object_order, name),
                                export_t2g_name(object_order, name)>>],
                         post)
            IN  IF publish_aborted(export)
                THEN /\ last_call' = Call("add_to_document", 0, "returned",
                                          "None", "export_exception",
                                          "not_attempted")
                     /\ requests' = <<>>
                     /\ dict_result' = NoResponse
                     /\ UNCHANGED <<document, published_object_counter,
                                    headless>>
                ELSE /\ document' = export.document
                     /\ headless' =
                            [document |->
                                 export_step(
                                     headless.document,
                                     <<next_object_order(
                                           headless.published_object_counter),
                                       name>>,
                                     exported).document,
                             published_object_counter |->
                                 counter_after_publish(
                                     headless.published_object_counter,
                                     NoViewerInstance)]
                     /\ requests' = r.sent
                     /\ dict_result' = r.dict
                     /\ published_object_counter' =
                            counter_after_publish(published_object_counter,
                                                  r.dict)
                     /\ last_call' = Call("add_to_document", export.item_id,
                                          "returned", "item_id",
                                          IF exported THEN "exported"
                                          ELSE "export_exception",
                                          IF is_available THEN post
                                          ELSE "not_attempted")
    /\ UNCHANGED <<fixed,
                   is_available, is_viewer_compatible,
                   plugin_name, active_document_name, project_folder>>

\* The status of an available session is never true (see dict_of_response),
\* so the id list is empty whenever the call returns.
find_object_from_viewer_by_name ==
    /\ constructed
    /\ IF ~is_available
       THEN /\ requests' = <<>>
            /\ dict_result' = NoResponse
            /\ last_call' = Call("find_object_from_viewer_by_name", 0,
                                 "returned", "[]", "done", "not_attempted")
       ELSE \E post \in PostInputs :
                LET r == try_send_request(
                             Request("POST", "find_object_by_name",
                                     {"operation", "arguments"},
                                     {"search_name"}), post)
                IN  /\ requests' = r.sent
                    /\ dict_result' = r.dict
                    /\ last_call' = Call("find_object_from_viewer_by_name", 0,
                                         IF HasStatus(r.dict) THEN "returned"
                                         ELSE "raised",
                                         IF HasStatus(r.dict) THEN "[]"
                                         ELSE "None",
                                         "done", post)
    /\ UNCHANGED <<fixed, is_available, is_viewer_compatible,
                   published_object_counter, plugin_name,
                   active_document_name, project_folder, document,
                   headless>>

\* Palette.get_specific_colour and Palette.get_colour
get_specific_colour(rgb) == rgb

get_colour(selected_colour) ==
    CASE selected_colour = "red" -> <<255, 0, 0>>

\* The tail of both colour setters: the response is not subscripted.
SendColour(op, id, colour) ==
    \E post \in PostInputs :
        LET r == try_send_request(
                     Request("POST", "set_object_colour",
                             {"operation", "arguments"},
                             {"fname", "item_id", "red", "green", "blue"}),
                     post)
        IN  /\ document' = mirror_after_response(
                             document,
                             set_object_colour(document, id, colour), r.dict)
            /\ headless' = [headless EXCEPT !.document =
                                mirror_after_response(
                                    @, set_object_colour(@, id, colour),
                                    NoViewerInstance)]
            /\ requests' = r.sent
            /\ dict_result' = r.dict
            /\ last_call' = Call(op, id, "returned", "None", "done",
                                 IF is_available THEN post
                                 ELSE "not_attempted")
            /\ UNCHANGED <<fixed, is_available,
                           is_viewer_compatible, published_object_counter,
                           plugin_name, active_document_name, project_folder>>

set_specific_object_colour(id, rgb) ==
    /\ constructed
    /\ SendColour("set_specific_object_colour", id, get_specific_colour(rgb))

set_object_colour_of(id, selected_colour) ==
    /\ constructed
    /\ SendColour("set_object_colour", id, get_colour(selected_colour))

\* ------------------------------------------------------ session settings
set_plugin_name(name) ==
    /\ constructed
    /\ \E app_data \in AppDataInputs(platform),
          folder \in FolderInputs(platform) :
        LET temp == setup_temp_folder(is_available, platform, name,
                                      app_data, folder)
        IN  /\ plugin_name' = name
            /\ project_folder' = temp.path
            /\ is_available' = temp.is_available
            /\ requests' = <<>>
            /\ dict_result' = NoResponse
            /\ last_call' = Call("set_plugin_name", 0, "returned", "None",
                                 folder, "not_attempted")
    /\ UNCHANGED <<fixed, is_viewer_compatible,
                   published_object_counter, active_document_name, document,
                   headless>>

set_model_name(model_name) ==
    /\ constructed
    /\ active_document_name' = model_name
    /\ document' = set_document_name(document, model_name)
    /\ headless' = [headless EXCEPT !.document =
                        set_document_name(@, model_name)]
    /\ requests' = <<>>
    /\ dict_result' = NoResponse
    /\ last_call' = Call("set_model_name", 0, "returned", "None", "done",
                         "not_attempted")
    /\ UNCHANGED <<fixed, is_available, is_viewer_compatible,
                   published_object_counter, plugin_name, project_folder>>

\* The two probes are public methods; called on the finished object they
\* return a value, and has_compatible_viewer may clear self.is_available.
call_has_active_viewer ==
    /\ constructed
    /\ \E probe \in ProbeOutcomes :
        /\ requests' = <<>>
        /\ dict_result' = NoResponse
        /\ last_call' = Call("has_active_viewer", 0, "returned",
                             IF has_active_viewer(probe) THEN "True"
                             ELSE "False",
                             "done", probe)
    /\ UNCHANGED <<fixed, is_available, is_viewer_compatible,
                   published_object_counter, plugin_name,
                   active_document_name, project_folder, document,
                   headless>>

call_has_compatible_viewer ==
    /\ constructed
    /\ \E version \in VersionOutcomes :
        LET r == has_compatible_viewer(is_available, version) IN
        /\ is_available' = r.is_available
        /\ requests' = r.sent
        /\ dict_result' = NoResponse
        /\ last_call' = Call("has_compatible_viewer", 0,
                             IF r.raised THEN "raised" ELSE "returned",
                             IF r.raised THEN "None"
                             ELSE IF r.result THEN "True" ELSE "False",
                             "done",
                             IF is_available THEN version
                             ELSE "not_attempted")
    /\ UNCHANGED <<fixed, is_viewer_compatible,
                   published_object_counter, plugin_name,
                   active_document_name, project_folder, document,
                   headless>>

\* ------------------------------------------- BackendService.run_command
\* What getattr(self, command_name) and the call of the command do.
CommandOutcomes ==
    {"not_found", "completed", "raised_exception", "raised_attribute_error",
     "raised_base_exception"}

\* The try body: the exception in flight when it ends, "none" if it ends
\* normally.  getattr raises AttributeError for an unknown name.
try_body(command) ==
    CASE command = "not_found" -> "AttributeError"
      [] command = "completed" -> "none"
      [] command = "raised_exception" -> "Exception"
      [] command = "raised_attribute_error" -> "AttributeError"
      [] command = "raised_base_exception" -> "BaseException"

\* The except clauses: AttributeError returns False, any other Exception is
\* printed and swallowed, anything else keeps propagating.
except_clauses(exception) ==
    CASE exception = "AttributeError" -> [raised |-> FALSE, result |-> "False"]
      [] exception = "Exception" -> [raised |-> FALSE, result |-> "None"]
      [] exception = "none" -> [raised |-> FALSE, result |-> "None"]
      [] exception = "BaseException" -> [raised |-> TRUE, result |-> "None"]

\* run_command without its finally clause.
finally_clause_absent(pending) == pending

\* finally: return True replaces a pending return value and discards an
\* exception in flight.
finally_clause(pending) == [raised |-> FALSE, result |-> "True"]

run_command ==
    /\ constructed
    /\ \E command \in CommandOutcomes :
        LET r == finally_clause(except_clauses(try_body(command))) IN
        /\ requests' = <<>>
        /\ dict_result' = NoResponse
        /\ last_call' = Call("run_command", 0,
                             IF r.raised THEN "raised" ELSE "returned",
                             r.result, command, "not_attempted")
    /\ UNCHANGED <<fixed, is_available, is_viewer_compatible,
                   published_object_counter, plugin_name,
                   active_document_name, project_folder, document,
                   headless>>

\* --------------------------------------------------------- specification
Next ==
    \/ update_viewer
    \/ commit_to_document
    \/ \E id \in EntityIds : hide(id)
    \/ \E id \in EntityIds : hide_only(id)
    \/ hide_all
    \/ \E id \in EntityIds : show(id)
    \/ \E id \in EntityIds : show_only(id)
    \/ show_all
    \/ \E id \in AttributeIds, opacity \in Opacities \cup {DefaultOpacity} :
           set_transparency(id, opacity)
    \/ fit_all
    \/ \E name \in Names : add_to_document(name)
    \/ find_object_from_viewer_by_name
    \/ \E id \in AttributeIds, rgb \in RGBInputs :
           set_specific_object_colour(id, rgb)
    \/ \E id \in AttributeIds, colour \in ColourSelection :
           set_object_colour_of(id, colour)
    \/ \E name \in PluginNames \cup {DefaultPluginName} : set_plugin_name(name)
    \/ \E name \in ModelNames \cup {DefaultDocumentName} : set_model_name(name)
    \/ call_has_active_viewer
    \/ call_has_compatible_viewer
    \/ run_command

Spec == Init /\ [][Next]_vars

\* ------------------------------------------------------------ properties
Ordinal(id) == document.objects[id].name[1]

OrdinalsDistinct ==
    \A i, j \in RegisteredIds(document) : i # j => Ordinal(i) # Ordinal(j)

\* C1: a publish whose local export succeeded adds exactly 1 to
\* published_object_counter whatever the remote outcome was; the counter
\* never decreases; no two published components carry the same ordinal.
PublishAdvancesCounter ==
    /\ []OrdinalsDistinct
    /\ [][/\ published_object_counter' >= published_object_counter
          /\ (last_call'.op = "add_to_document"
              /\ last_call'.local = "exported")
             => published_object_counter' = published_object_counter + 1
         ]_vars

PublishedTwiceWithFailingViewer ==
    /\ last_call.op = "add_to_document"
    /\ last_call.local = "exported"
    /\ last_call.remote = "exception"
    /\ published_object_counter = 2
    /\ Ordinal(2) = 2

\* C2: a publish whose local export fails leaves published_object_counter
\* and the document as they were, sends no request and returns None.
FailedExportAbortsPublish ==
    [][(last_call'.op = "add_to_document"
        /\ last_call'.local = "export_exception")
       => /\ published_object_counter' = published_object_counter
          /\ document' = document
          /\ requests' = <<>>
          /\ last_call'.outcome = "returned"
          /\ last_call'.result = "None"
      ]_vars

ExportFailedWithViewerAttached ==
    /\ last_call.op = "add_to_document"
    /\ last_call.local = "export_exception"
    /\ is_available
    /\ published_object_counter = 1

\* C3: commit_to_document sends no request when save_document_to reported
\* failure.
CommitNotifiesOnlyAfterSave ==
    (last_call.op = "commit_to_document" /\ last_call.local = "save_failed")
        => requests = <<>>

SyncOperations ==
    {"show", "hide", "show_only", "hide_only", "show_all", "hide_all",
     "set_transparency", "set_specific_object_colour", "set_object_colour",
     "fit_all", "commit_to_document"}

\* The mirror mutation each sync operation is specified to make.
SpecifiedMirror(doc, call, newdoc) ==
    LET id == call.entity_id
        registered == RegisteredIds(doc)
        sameButVisibility ==
            /\ newdoc.ids = doc.ids
            /\ newdoc.name = doc.name
            /\ \A c \in registered :
                   [newdoc.objects[c] EXCEPT !.visible = TRUE]
                       = [doc.objects[c] EXCEPT !.visible = TRUE]
    IN  CASE call.op = "show" ->
                 newdoc = set_object_visibility(doc, id, TRUE)
          [] call.op = "hide" ->
                 newdoc = set_object_visibility(doc, id, FALSE)
          [] call.op = "show_all" ->
                 sameButVisibility /\ VisibleIds(newdoc) = registered
          [] call.op = "hide_all" ->
                 sameButVisibility /\ VisibleIds(newdoc) = {}
          [] call.op = "show_only" ->
                 sameButVisibility /\ VisibleIds(newdoc) = registered \cap {id}
          [] call.op = "hide_only" ->
                 sameButVisibility /\ VisibleIds(newdoc) = registered \ {id}
          [] call.op = "set_transparency" ->
                 \E o \in Opacities \cup {DefaultOpacity} :
                     newdoc = set_object_opacity(doc, id, o)
          [] call.op \in {"set_specific_object_colour", "set_object_colour"} ->
                 \E c \in {get_colour(sel) : sel \in ColourSelection}
                          \cup {get_specific_colour(rgb) : rgb \in RGBInputs} :
                     newdoc = set_object_colour(doc, id, c)
          [] OTHER -> newdoc = doc

\* C4: with is_available false, every sync operation makes its mirror
\* mutation and returns without raising, for every argument and registry.
SyncOperationsWorkWithoutViewer ==
    [][(~is_available /\ last_call'.op \in SyncOperations)
       => /\ last_call'.outcome = "returned"
          /\ SpecifiedMirror(document, last_call', document')
      ]_vars

\* C5: every request of the last call, the GET /version of the constructor
\* included, was issued while is_available was true.
RequestsOnlyWhenAvailable ==
    \A i \in DOMAIN requests : requests[i].gate

SyncCallWithoutViewer ==
    /\ ~is_available
    /\ last_call.op \in SyncOperations \cup {"add_to_document"}
    /\ last_call.outcome = "returned"
    /\ last_call.remote = "not_attempted"
    /\ requests = <<>>
    /\ Len(document.ids) = 1

\* C6: when the port probe succeeded and the version was incompatible the
\* constructor finishes with is_available false, and no later call sends a
\* request.
IncompatibleViewerIsNoViewer ==
    viewer_at_construction = "incompatible"
        => /\ constructed
           /\ ~is_available
           /\ (last_call.op # "__init__" => requests = <<>>)

OperationAfterIncompatibleViewer ==
    /\ viewer_at_construction = "incompatible"
    /\ last_call.op = "show"
    /\ last_call.outcome = "returned"
    /\ 1 \in VisibleIds(document)

\* C7: when the port probe succeeded and GET /version fails with a network
\* error, has_compatible_viewer reports not compatible and the constructor
\* completes.
VersionQueryFailureDoesNotRaise ==
    viewer_at_construction = "network_error"
        => constructed /\ ~is_viewer_compatible

\* C8: no call on the constructed object turns is_available from false to
\* true.
AvailabilityNeverRecovers ==
    [][(constructed /\ ~is_available) => ~is_available']_vars

FolderSetUpWhileUnavailable ==
    /\ ~is_available
    /\ last_call.op = "set_plugin_name"
    /\ last_call.local = "created"
    /\ project_folder # NoPath

\* C9: after show_only(id) the visible components are exactly the
\* registered one with that id: one component when id is registered, none
\* when it is not.
ShowOnlyShowsExactlyTheArgument ==
    last_call.op = "show_only"
        => VisibleIds(document)
               = RegisteredIds(document) \cap {last_call.entity_id}

ShowOnlyAmongTwo ==
    /\ last_call.op = "show_only"
    /\ Len(document.ids) = 2
    /\ last_call.entity_id = 1
    /\ VisibleIds(document) = {1}

\* C10: after hide_only(id) every registered component is visible except
\* the one whose id is the argument.
HideOnlyHidesExactlyTheArgument ==
    last_call.op = "hide_only"
        => VisibleIds(document)
               = RegisteredIds(document) \ {last_call.entity_id}

\* C11: a send on an available session issues exactly one POST, also when
\* the POST raises; a POST that raised gives the response status False,
\* which is not the status of the no-viewer response an unavailable session
\* gets.
OnePostAndFailureIsNotNoViewer ==
    /\ last_call.remote \in PostOutcomes
           => /\ Len(requests) = 1
              /\ requests[1].method = "POST"
    /\ last_call.remote = "exception"
           => /\ dict_result = StatusFalse
              /\ dict_result.status # NoViewerInstance.status
    /\ (last_call.remote = "not_attempted" /\ dict_result # NoResponse)
           => /\ dict_result = NoViewerInstance
              /\ requests = <<>>

PostRaisedOnAvailableSession ==
    /\ is_available
    /\ last_call.op = "hide"
    /\ last_call.remote = "exception"
    /\ last_call.outcome = "returned"
    /\ Len(requests) = 1
    /\ dict_result.status = "False"

\* C12: on an available session every sync operation returns normally,
\* whatever the POST did: raised, or answered with any body.
SyncOperationsNeverRaiseOnRemoteOutcome ==
    (last_call.op \in SyncOperations /\ last_call.remote \in PostOutcomes)
        => last_call.outcome = "returned"

\* C13: a sync operation whose POST raised leaves is_available true, and the
\* sync operation called next issues its own POST.
FailedSendKeepsGateOpen ==
    [][/\ (last_call'.op \in SyncOperations
           /\ last_call'.remote = "exception")
          => (is_available' /\ is_available)
       /\ (last_call.op \in SyncOperations
           /\ last_call.remote = "exception"
           /\ last_call'.op \in SyncOperations)
          => (Len(requests') = 1 /\ requests'[1].method = "POST")
      ]_vars

\* C14: every component the mirror records as visible is a component of the
\* document that a successful add_to_document published, with an ordinal
\* the counter has reached; showing an id that was never published makes
\* nothing visible.
VisibleOnlyIfPublished ==
    \A id \in DOMAIN document.objects :
        document.objects[id].visible
            => /\ id \in RegisteredIds(document)
               /\ Ordinal(id) \in 1 .. published_object_counter

ShownUnpublishedId ==
    /\ last_call.op = "show"
    /\ last_call.entity_id \notin RegisteredIds(document)
    /\ Len(document.ids) = 1
    /\ VisibleIds(document) = {1}

\* The arguments the wire protocol requires for each operation.
RequiredArguments(operation) ==
    CASE operation \in {"update_viewer", "hide_all", "show_all", "fit_all"}
             -> {}
      [] operation \in {"hide", "show", "show_only", "hide_only"}
             -> {"entity_id"}
      [] operation = "commit_to_document" -> {"fname", "model_path"}
      [] operation = "set_transparency" -> {"entity_id", "opacity"}
      [] operation = "add_to_document"
             -> {"name", "item_id", "t2g_file", "stl_file", "stl_path",
                 "stl_path_static", "t2g_path_static"}
      [] operation = "set_object_colour"
             -> {"fname", "item_id", "red", "green", "blue"}
      [] operation = "find_object_by_name" -> {"search_name"}

\* C15: every request posted has an "operation" field and an "arguments"
\* mapping, and the mapping holds the arguments required for the operation.
RequestsHaveOperationAndArguments ==
    \A i \in DOMAIN requests :
        requests[i].method = "POST"
            => /\ requests[i].fields = {"operation", "arguments"}
               /\ requests[i].arguments
                      = RequiredArguments(requests[i].operation)

\* C16: the k-th component a session publishes successfully carries the
\* ordinal k, and the request of that publish names the files "k_n.stl" and
\* "k_n_geom.json" for its name n; failed exports and failed notifications
\* in between do not count.
PublishNamesCarryOrdinal ==
    /\ \A k \in 1 .. Len(document.ids) : Ordinal(document.ids[k]) = k
    /\ (last_call.op = "add_to_document" /\ last_call.local = "exported"
        /\ requests # <<>>)
           => LET k == Len(document.ids)
                  n == document.objects[last_call.entity_id].name[2]
              IN  requests[1].files
                      = <<ToString(k) \o "_" \o n \o ".stl",
                          ToString(k) \o "_" \o n \o "_geom.json">>

SecondPublishNamesItsFiles ==
    /\ last_call.op = "add_to_document"
    /\ last_call.local = "exported"
    /\ last_call.remote = "exception"
    /\ published_object_counter = 2
    /\ requests # <<>>
    /\ requests[1].files = <<"2_Bracket.stl", "2_Bracket_geom.json">>

\* No application-data root: the platform has none, or APPDATA is not set.
RootUnresolved ==
    \/ platform \notin {"win32", "linux"}
    \/ project_folder.root = "None"

\* C17: when the application-data root cannot be resolved or the working
\* directory cannot be made, __init__ and set_plugin_name return with
\* is_available false, on every platform.
FolderFailureDegradesSession ==
    (/\ last_call.op \in {"__init__", "set_plugin_name"}
     /\ RootUnresolved \/ last_call.local = "mkdir_error")
        => /\ constructed
           /\ last_call.outcome = "returned"
           /\ ~is_available

\* C18: run_command returns True when the command was found and run, also
\* when the command failed, and False when no command has that name.
RunCommandTellsFoundFromNotFound ==
    last_call.op = "run_command"
        => /\ last_call.local # "not_found" => last_call.result = "True"
           /\ last_call.local = "not_found" => last_call.result = "False"

LocalStateIndependentOfViewer ==
    /\ document = headless.document
    /\ published_object_counter = headless.published_object_counter

\* A viewer is attached, an object is published, and the POST of hide failed:
\* the object is hidden in the mirror all the same.
HiddenThoughViewerFailed ==
    /\ is_available
    /\ last_call.op = "hide"
    /\ last_call.remote = "exception"
    /\ last_call.entity_id = 1
    /\ 1 \in RegisteredIds(document)
    /\ 1 \notin VisibleIds(document)
    /\ 1 \notin VisibleIds(headless.document)

\* C21: when construction finishes the gate is in a terminal state and the
\* compatibility flag agrees with it: is_viewer_compatible is true only if
\* the port probe succeeded and the viewer's version passed the compatibility
\* predicate, so a session that holds is_viewer_compatible holds is_available
\* as has_compatible_viewer left it (sessions whose folder set-up failed
\* afterwards, and closed the gate at line 493, are left aside).
CompatibleFlagAgreesWithGate ==
    (/\ constructed
     /\ last_call.op = "__init__"
     /\ last_call.local # "mkdir_error"
     /\ is_viewer_compatible)
        => /\ viewer_at_construction = "compatible"
           /\ is_available
====
